---- MODULE Spec2Model ----
(***************************************************************************)
(* Model of src/main.py: the Kakao skill webhook POST /kakao/lover.        *)
(*                                                                         *)
(* A text (Python str) is a sequence of one-character strings.  The        *)
(* characters that matter to the code are kept apart:                      *)
(*   " "  and "\n"   whitespace (removed by str.strip), "\n" a line break, *)
(*   "E"             a code point matched by _EMOJI_RE,                    *)
(*   "yo", "ni", ... Hangul syllables (romanised) of the polite markers,   *)
(*   anything else   an ordinary character.                                *)
(*                                                                         *)
(* Requests share no mutable state in the code (os.environ and             *)
(* FRIEND_FEWSHOT are only read), so the life of one request is modelled   *)
(* at a time: the handler, then the background task Starlette runs after   *)
(* the response has been sent.  The completion API and the callback        *)
(* endpoint are the environment: their outcomes are chosen freely.         *)
(***************************************************************************)
EXTENDS Integers, Sequences, FiniteSets, TLC

VARIABLES
    credential,        \* os.environ has OPENAI_API_KEY
    FRIEND_FEWSHOT,    \* the module-level list of example turns
    request,           \* the inbound HTTP body of the request being served
    pc,                \* where kakao_friend is
    response,          \* what kakao_friend returned to the platform
    background_tasks,  \* BackgroundTasks of the request: the add_task calls
    task_pc,           \* where background_process is
    calls,             \* chat.completions.create calls issued so far
    completions,       \* what those calls produced
    posts,             \* outbound POSTs attempted to the callback address
    log                \* lines printed

vars == <<credential, FRIEND_FEWSHOT, request, pc, response, background_tasks,
          task_pc, calls, completions, posts, log>>

\* ------------------------------------------------------------------ bounds

MaxUtteranceLen == 2
MaxLines == 4

\* ------------------------------------------------------------ text helpers

Whitespace == {" ", "\n"}

Emoji == {"E"}

RECURSIVE lstrip(_)
lstrip(s) ==
    IF s = <<>> THEN <<>>
    ELSE IF Head(s) \in Whitespace THEN lstrip(Tail(s)) ELSE s

RECURSIVE rstrip(_)
rstrip(s) ==
    IF s = <<>> THEN <<>>
    ELSE IF s[Len(s)] \in Whitespace THEN rstrip(SubSeq(s, 1, Len(s) - 1)) ELSE s

strip(s) == rstrip(lstrip(s))

\* str.splitlines(): no empty last line after a final line break.
RECURSIVE splitlines(_)
splitlines(s) ==
    IF s = <<>> THEN <<>>
    ELSE LET brk == {i \in 1..Len(s) : s[i] = "\n"}
         IN  IF brk = {} THEN <<s>>
             ELSE LET i == CHOOSE j \in brk : \A k \in brk : j <= k
                  IN  <<SubSeq(s, 1, i - 1)>> \o splitlines(SubSeq(s, i + 1, Len(s)))

RECURSIVE join(_, _)
join(sep, lines) ==
    IF lines = <<>> THEN <<>>
    ELSE IF Len(lines) = 1 THEN lines[1]
    ELSE lines[1] \o sep \o join(sep, Tail(lines))

\* needle in haystack
Contains(haystack, needle) ==
    \E i \in 1..(Len(haystack) - Len(needle) + 1) :
        SubSeq(haystack, i, i + Len(needle) - 1) = needle

RECURSIVE MapStrip(_)
MapStrip(lines) ==
    IF lines = <<>> THEN <<>> ELSE <<strip(Head(lines))>> \o MapStrip(Tail(lines))

NonEmpty(s) == s # <<>>

\* ------------------------------------------------------------- 1. utilities

kakao_text(msg) ==
    [version |-> "2.0",
     template |-> [outputs |-> <<[simpleText |-> [text |-> msg]]>>]]

strip_emojis(text) == SelectSeq(text, LAMBDA c : c \notin Emoji)

collapse_lines(text, max_lines) ==
    LET lines == SelectSeq(MapStrip(splitlines(text)), NonEmpty)
        kept  == SubSeq(lines, 1, IF Len(lines) < max_lines THEN Len(lines) ELSE max_lines)
    IN  strip(join(<<"\n">>, kept))

polite_markers ==
    { <<"yo">>, <<"ni", "da">>, <<"kka", "yo">>, <<"deu", "rip", "ni", "da">>,
      <<"haet", "eo", "yo">>, <<"doe", "na", "yo">>, <<"ju", "se", "yo">>,
      <<"joe", "song">>, <<"gam", "sa">> }

detect_politeness(user_text) ==
    LET t == strip(user_text)
    IN  IF \E m \in polite_markers : Contains(t, m) THEN "polite" ELSE "casual"

\* ---------------------------------------------------------------- 2. persona

FEWSHOT_LITERAL ==
    << [role |-> "user",      content |-> <<"mwohanya">>],
       [role |-> "assistant", content |-> <<"geunyang isseum. wai">>],
       [role |-> "user",      content |-> <<"na yojeum neomu bappaseo">>],
       [role |-> "assistant", content |-> <<"geuphangeobuteo. magam mwoim">>] >>

build_messages_live_first(user_text) ==
    LET mode == detect_politeness(user_text)
        style_addon == IF mode = "polite" THEN "ADDON_POLITE" ELSE "ADDON_CASUAL"
    IN  << [role |-> "system",
            content |-> <<"FRIEND_SYSTEM", "\n", style_addon, "\n", "\n", "FRIEND_PROFILE">>],
           [role |-> "user", content |-> user_text] >>
        \o FRIEND_FEWSHOT

build_messages(user_text) ==
    LET mode == detect_politeness(user_text)
        style_addon == IF mode = "polite" THEN "ADDON_POLITE" ELSE "ADDON_CASUAL"
    IN  << [role |-> "system",
            content |-> <<"FRIEND_SYSTEM", "\n", style_addon, "\n", "\n", "FRIEND_PROFILE">>] >>
        \o FRIEND_FEWSHOT
        \o << [role |-> "user", content |-> user_text] >>

\* ---------------------------------------------------------------- inputs

UtteranceChars == {"mwo", " ", "yo"}

SeqsUpTo(S, n) == UNION {[1..k -> S] : k \in 0..n}

Utterances == SeqsUpTo(UtteranceChars, MaxUtteranceLen)

\* A request body.  body: what req.json() gives; userRequest, utterance and
\* callbackUrl: whether the key is there, and what it holds.
MakeRequest(b, ur, ut, text, cb, url) ==
    [body |-> b, userRequest |-> ur, utterance |-> ut, utterance_text |-> text,
     callbackUrl |-> cb, callbackUrl_text |-> url]

NoRequest == MakeRequest("none", "missing", "missing", <<>>, "missing", "")

CallbackUrls ==
    {<<"missing", "">>, <<"string", "">>, <<"string", "https://x">>}

Requests ==
    {MakeRequest(b, "missing", "missing", <<>>, "missing", "") :
        b \in {"invalid_json", "not_object", "object"}}
    \cup {MakeRequest("object", "null", "missing", <<>>, "missing", "")}
    \cup {MakeRequest("object", "object", ut, <<>>, cb[1], cb[2]) :
            ut \in {"missing", "null"}, cb \in CallbackUrls}
    \cup {MakeRequest("object", "object", "string", u, cb[1], cb[2]) :
            u \in Utterances, cb \in CallbackUrls}

\* What the completion API can answer: a content of up to MaxLines lines,
\* or a failure.
LineChoices == {<<"a">>, <<" ", "b", "E">>, <<"E">>, <<>>}

Contents == {join(<<"\n">>, ls) : ls \in SeqsUpTo(LineChoices, MaxLines)}

Completion(k, c) == [kind |-> k, content |-> c]

CompletionOutcomes ==
    {Completion("ok", c) : c \in Contents}
    \cup {Completion(k, <<>>) : k \in {"timeout", "api_error", "no_choices", "null_content"}}

\* ----------------------------------------------------- 4. the main endpoint

JSONResponse(content) == [status_code |-> 200, content |-> content]

NoResponse == [status_code |-> 0]

\* An exception that leaves the handler: FastAPI answers 500.
UnhandledFault == [status_code |-> 500, content |-> "Internal Server Error"]

REPEAT_PROMPT == <<"?">>

FALLBACK == <<"o", "ryu", ".">>

None == "<None>"

Raised == [raised |-> TRUE, user_text |-> <<>>, callback_url |-> None]

get_user_text_unstripped(req) ==
    IF req.userRequest = "object" /\ req.utterance = "string"
    THEN req.utterance_text ELSE <<>>

\* user_request.get("utterance", "").strip()
get_user_text(req) ==
    strip(IF req.userRequest = "object" /\ req.utterance = "string"
          THEN req.utterance_text ELSE <<>>)

\* user_request.get("callbackUrl")
get_callback_url(req) ==
    IF req.userRequest = "object" /\ req.callbackUrl = "string"
    THEN req.callbackUrl_text ELSE None

\* Lines 103-106: the fields of the envelope, or the exception they raise
\* (a body that is no JSON object, userRequest null, utterance null).
parse(req) ==
    IF req.body # "object" \/ req.userRequest = "null"
       \/ (req.userRequest = "object" /\ req.utterance = "null")
    THEN Raised
    ELSE [raised |-> FALSE, user_text |-> get_user_text(req),
          callback_url |-> get_callback_url(req)]

Truthy_not_none(callback_url) == callback_url # None

\* if callback_url:
Truthy(callback_url) == callback_url \notin {None, ""}

dispatch_ignoring_callback(user_text, callback_url) ==
    IF user_text = <<>> THEN "repeat" ELSE "sync"

\* Lines 108, 112, 123: which branch the handler takes.
dispatch(user_text, callback_url) ==
    IF user_text = <<>> THEN "repeat"
    ELSE IF Truthy(callback_url) THEN "callback"
    ELSE "sync"

callback_ack == [version |-> "2.0", useCallback |-> TRUE]

kakao_friend_reraise == UnhandledFault

\* Lines 136-139: except Exception.
kakao_friend_except == JSONResponse(kakao_text(FALLBACK))

\* Line 133.
sync_answer(content) == strip_emojis(strip(content))

Call(by, messages) == [by |-> by, messages |-> messages]

Task(callback_url, user_text) ==
    [func |-> "background_process", callback_url |-> callback_url, user_text |-> user_text]

Init ==
    /\ credential \in BOOLEAN
    /\ FRIEND_FEWSHOT = FEWSHOT_LITERAL
    /\ request = NoRequest
    /\ pc = "idle"
    /\ response = NoResponse
    /\ background_tasks = <<>>
    /\ task_pc = "none"
    /\ calls = <<>>
    /\ completions = <<>>
    /\ posts = <<>>
    /\ log = <<>>

\* The platform sends a request, to /kakao/lover or to /kakao/lover/:
\* kakao_friend_slash only awaits kakao_friend with the same arguments.
Receive ==
    /\ pc = "idle"
    /\ \E req \in Requests : request' = req
    /\ pc' = "received"
    /\ UNCHANGED <<credential, FRIEND_FEWSHOT, response, background_tasks, task_pc,
                   calls, completions, posts, log>>

\* kakao_friend from its entry to its return, or to the await of the
\* completion call in synchronous mode.
kakao_friend ==
    /\ pc = "received"
    /\ LET p == parse(request)
           branch == dispatch(p.user_text, p.callback_url)
       IN  IF p.raised
           THEN /\ response' = kakao_friend_except
                /\ log' = Append(log, "[Error]")
                /\ pc' = "returned"
                /\ UNCHANGED <<background_tasks, task_pc, calls>>
           ELSE IF branch = "repeat"
           THEN /\ response' = JSONResponse(kakao_text(REPEAT_PROMPT))
                /\ pc' = "returned"
                /\ UNCHANGED <<background_tasks, task_pc, calls, log>>
           ELSE IF branch = "callback"
           THEN /\ log' = Append(log, "[Async]")
                /\ background_tasks' =
                       Append(background_tasks, Task(p.callback_url, p.user_text))
                /\ task_pc' = "pending"
                /\ response' = JSONResponse(callback_ack)
                /\ pc' = "returned"
                /\ UNCHANGED calls
           ELSE IF ~credential
           THEN \* AsyncOpenAI(api_key=None) raises inside the try
                /\ response' = kakao_friend_except
                /\ log' = log \o <<"[Sync]", "[Error]">>
                /\ pc' = "returned"
                /\ UNCHANGED <<background_tasks, task_pc, calls>>
           ELSE /\ log' = Append(log, "[Sync]")
                /\ calls' = Append(calls, Call("kakao_friend", build_messages(p.user_text)))
                /\ pc' = "sync_await"
                /\ UNCHANGED <<background_tasks, task_pc, response>>
    /\ UNCHANGED <<credential, FRIEND_FEWSHOT, request, completions, posts>>

\* The completion call of synchronous mode ends; lines 133-139.
kakao_friend_completion ==
    /\ pc = "sync_await"
    /\ \E out \in CompletionOutcomes :
        /\ completions' = Append(completions, out)
        /\ IF out.kind = "ok"
           THEN /\ response' = JSONResponse(kakao_text(sync_answer(out.content)))
                /\ UNCHANGED log
           ELSE /\ response' = kakao_friend_except
                /\ log' = Append(log, "[Error]")
    /\ pc' = "returned"
    /\ UNCHANGED <<credential, FRIEND_FEWSHOT, request, background_tasks, task_pc,
                   calls, posts>>

\* ------------------------------------------------- 3. the background task

MAX_LINES == 3

async_answer_uncollapsed(content) == strip_emojis(strip(content))

\* Lines 83-85.
async_answer(content) == collapse_lines(strip_emojis(strip(content)), MAX_LINES)

Post(url, json, state) == [url |-> url, json |-> json, state |-> state]

background_process_no_except == "raised"

\* Lines 96-97: except Exception, where the task ends after an exception of
\* the try block.
background_process_except == "done"

\* Starlette runs the task once the response has been sent.  Line 73, then
\* the completion call of line 77 is issued.
background_process ==
    /\ pc = "returned"
    /\ task_pc = "pending"
    /\ background_tasks # <<>>
    /\ IF ~credential
       THEN \* AsyncOpenAI(api_key=None) raises before the try
            /\ task_pc' = "raised"
            /\ UNCHANGED calls
       ELSE /\ calls' = Append(calls, Call("background_process",
                                           build_messages(background_tasks[1].user_text)))
            /\ task_pc' = "create"
    /\ UNCHANGED <<credential, FRIEND_FEWSHOT, request, pc, response, background_tasks,
                   completions, posts, log>>

\* The completion call of the task ends; lines 83-93 up to the await of the
\* POST, or lines 96-97.
background_process_completion ==
    /\ task_pc = "create"
    /\ \E out \in CompletionOutcomes :
        /\ completions' = Append(completions, out)
        /\ IF out.kind = "ok"
           THEN /\ posts' = Append(posts, Post(background_tasks[1].callback_url,
                                               kakao_text(async_answer(out.content)),
                                               "in_flight"))
                /\ task_pc' = "post"
                /\ UNCHANGED log
           ELSE /\ log' = Append(log, "[Callback Error]")
                /\ task_pc' = background_process_except
                /\ UNCHANGED posts
    /\ UNCHANGED <<credential, FRIEND_FEWSHOT, request, pc, response, background_tasks,
                   calls>>

\* The POST to the callback address ends: any HTTP answer (line 94), or a
\* network error or timeout (lines 96-97).
background_process_posted ==
    /\ task_pc = "post"
    /\ \E delivered \in BOOLEAN :
        IF delivered
        THEN /\ posts' = [posts EXCEPT ![Len(posts)].state = "delivered"]
             /\ log' = Append(log, "[Callback Success]")
             /\ task_pc' = "done"
        ELSE /\ posts' = [posts EXCEPT ![Len(posts)].state = "failed"]
             /\ log' = Append(log, "[Callback Error]")
             /\ task_pc' = background_process_except
    /\ UNCHANGED <<credential, FRIEND_FEWSHOT, request, pc, response, background_tasks,
                   calls, completions>>

\* The request is over; the next one starts from scratch.
NextRequest ==
    /\ pc = "returned"
    /\ task_pc \in {"none", "done", "raised"}
    /\ request' = NoRequest
    /\ pc' = "idle"
    /\ response' = NoResponse
    /\ background_tasks' = <<>>
    /\ task_pc' = "none"
    /\ calls' = <<>>
    /\ completions' = <<>>
    /\ posts' = <<>>
    /\ log' = <<>>
    /\ UNCHANGED <<credential, FRIEND_FEWSHOT>>

Next ==
    \/ Receive
    \/ kakao_friend
    \/ kakao_friend_completion
    \/ background_process
    \/ background_process_completion
    \/ background_process_posted
    \/ NextRequest

Spec == Init /\ [][Next]_vars

\* ------------------------------------------------------- the properties

\* What the request is, read off the body the platform sent.
IsBlank(text) == \A i \in 1..Len(text) : text[i] \in Whitespace

UtteranceBlank ==
    /\ request.body = "object"
    /\ \/ request.userRequest = "missing"
       \/ /\ request.userRequest = "object"
          /\ \/ request.utterance = "missing"
             \/ request.utterance = "string" /\ IsBlank(request.utterance_text)

HasUtterance ==
    /\ request.body = "object"
    /\ request.userRequest = "object"
    /\ request.utterance = "string"
    /\ ~IsBlank(request.utterance_text)

HasCallback ==
    /\ request.body = "object"
    /\ request.userRequest = "object"
    /\ request.callbackUrl = "string"
    /\ request.callbackUrl_text # ""

SyncMode == HasUtterance /\ ~HasCallback

CallbackMode == HasUtterance /\ HasCallback

AnswerEnvelope(text) ==
    [version |-> "2.0",
     template |-> [outputs |-> <<[simpleText |-> [text |-> text]]>>]]

IsAnswerEnvelope(json) ==
    /\ DOMAIN json = {"version", "template"}
    /\ json = AnswerEnvelope(json.template.outputs[1].simpleText.text)

TextOf(json) == json.template.outputs[1].simpleText.text

\* The texts of the answer envelopes emitted so far, inline and by callback.
EmittedTexts ==
    (IF response.status_code = 200 /\ "template" \in DOMAIN response.content
     THEN {TextOf(response.content)} ELSE {})
    \cup {TextOf(posts[i].json) : i \in 1..Len(posts)}

FirstLines(lines, n) == SubSeq(lines, 1, IF Len(lines) < n THEN Len(lines) ELSE n)

\* The non-empty trimmed lines of a raw completion, emoji removed.
CleanLines(raw) == SelectSeq(MapStrip(splitlines(strip_emojis(raw))), NonEmpty)

\* C1: in callback mode, once the task has finished its completion request,
\* succeeded or failed, and has run to its end, a POST to the callback address
\* has been attempted whose body is an answer envelope with the formatted
\* answer or the fallback message.
C1_CallbackPostAfterCompletion ==
    (CallbackMode /\ completions # <<>> /\ task_pc \in {"done", "raised"}) =>
        /\ Len(posts) >= 1
        /\ posts[1].url = request.callbackUrl_text
        /\ IsAnswerEnvelope(posts[1].json)

\* C2: in synchronous mode, when the completion call times out, raises or
\* answers malformed, the handler returns 200 with the answer envelope whose
\* text is the fallback string, and no fault leaves the handler.
C2_SyncFailureFallback ==
    SyncMode =>
        /\ response.status_code \in {0, 200}
        /\ (pc = "returned" /\ (completions = <<>> \/ completions[1].kind # "ok")) =>
               response = [status_code |-> 200, content |-> AnswerEnvelope(FALLBACK)]

C2_Witness ==
    /\ SyncMode
    /\ pc = "returned"
    /\ completions # <<>>
    /\ completions[1].kind = "timeout"
    /\ response.status_code = 200

\* C3: a request with a non-empty utterance and a callback address is
\* answered with exactly {version: "2.0", useCallback: true}, exactly one
\* background task is scheduled for it, and the completion request of that
\* task is performed only after the acknowledgment has been returned.
C3_CallbackAckFirst ==
    CallbackMode =>
        /\ pc = "returned" =>
               /\ response = [status_code |-> 200,
                              content |-> [version |-> "2.0", useCallback |-> TRUE]]
               /\ Len(background_tasks) = 1
               /\ background_tasks[1].callback_url = request.callbackUrl_text
               /\ task_pc # "none"
        /\ calls # <<>> => pc = "returned"
        /\ task_pc \notin {"none", "pending"} => pc = "returned"

C3_Witness ==
    /\ CallbackMode
    /\ pc = "returned"
    /\ calls # <<>>
    /\ calls[1].by = "background_process"

\* C4: a request whose utterance is empty, whitespace-only or missing, with
\* or without a callback address, gets the repeat prompt "?", and no
\* completion call is made and no callback task is scheduled for it.
C4_BlankUtteranceRepeatPrompt ==
    UtteranceBlank =>
        /\ pc = "returned" =>
               response = [status_code |-> 200, content |-> AnswerEnvelope(<<"?">>)]
        /\ calls = <<>>
        /\ background_tasks = <<>>
        /\ task_pc = "none"
        /\ posts = <<>>

C4_Witness ==
    /\ UtteranceBlank
    /\ HasCallback
    /\ request.utterance = "string"
    /\ request.utterance_text # <<>>
    /\ pc = "returned"

\* C5: the text of every answer envelope the program emits, inline or by
\* callback, is never the empty string.
C5_TextNeverEmpty == \A t \in EmittedTexts : t # <<>>

\* C6: with the credential absent, a request with a non-empty utterance ends
\* in a configuration-error answer envelope and never in an unhandled fault,
\* in the handler and in the background task alike.
C6_MissingCredentialRecovered ==
    (~credential /\ HasUtterance) =>
        /\ response.status_code # 500
        /\ task_pc # "raised"
        /\ (pc = "returned" /\ task_pc \in {"none", "done"}) => EmittedTexts # {}

\* C7: every generated answer emitted, inline or by callback, went through the
\* whole formatter: when the raw completion has more than 3 non-empty lines,
\* the emitted text is the first 3 non-empty trimmed lines in order.
C7_AtMostThreeLines ==
    (completions # <<>> /\ completions[1].kind = "ok"
        /\ Len(CleanLines(completions[1].content)) > 3) =>
        \A t \in EmittedTexts :
            /\ Len(splitlines(t)) <= 3
            /\ t = join(<<"\n">>, FirstLines(CleanLines(completions[1].content), 3))

\* C8: when the POST to the callback address fails, the failure is logged and
\* dropped: the task ends without raising, and at most one POST is attempted
\* for a request.
C8_CallbackFailureDropped ==
    /\ Len(posts) <= 1
    /\ (posts # <<>> /\ posts[1].state = "failed") =>
           /\ task_pc = "done"
           /\ log # <<>>
           /\ log[Len(log)] = "[Callback Error]"

C8_Witness ==
    /\ posts # <<>>
    /\ posts[1].state = "failed"
    /\ task_pc = "done"

IsComposed(messages, user_text) ==
    /\ Len(messages) = Len(FEWSHOT_LITERAL) + 2
    /\ messages[1].role = "system"
    /\ \A j \in 2..Len(messages) : messages[j].role # "system"
    /\ SubSeq(messages, 2, Len(messages) - 1) = FEWSHOT_LITERAL
    /\ messages[Len(messages)] = [role |-> "user", content |-> user_text]

\* C9: build_messages returns the system turn, then the few-shot turns in
\* their order, then one user turn holding the live utterance, for every
\* utterance and in every completion call issued; the shared few-shot list is
\* never changed.
C9_TurnOrder ==
    /\ FRIEND_FEWSHOT = FEWSHOT_LITERAL
    /\ \A u \in Utterances : IsComposed(build_messages(u), u)
    /\ \A i \in 1..Len(calls) :
           IsComposed(calls[i].messages, strip(request.utterance_text))

C9_Witness ==
    /\ Len(calls) = 1
    /\ detect_politeness(request.utterance_text) = "polite"
    /\ calls[1].messages[Len(calls[1].messages)].content = <<"mwo", "yo">>

\* C10: the modes exclude each other and a request issues at most one
\* completion call: in callback mode only the background task calls, once; in
\* synchronous mode no task is scheduled and nothing is POSTed.
C10_ModesExclusive ==
    /\ Len(calls) <= 1
    /\ Len(completions) <= 1
    /\ CallbackMode => \A i \in 1..Len(calls) : calls[i].by = "background_process"
    /\ SyncMode =>
           /\ \A i \in 1..Len(calls) : calls[i].by = "kakao_friend"
           /\ background_tasks = <<>>
           /\ task_pc = "none"
           /\ posts = <<>>
    /\ background_tasks # <<>> => pc # "sync_await"

C10_Witness ==
    /\ SyncMode
    /\ request.callbackUrl = "string"
    /\ pc = "returned"
    /\ Len(calls) = 1
    /\ calls[1].by = "kakao_friend"

====
